---- MODULE Spec2Model ----
(***************************************************************************)
(* Model of src/index.js: the Element tree (append / remove / clear /      *)
(* innerText), its text validation and escaping, and the Document          *)
(* skeleton built on top of it.                                            *)
(*                                                                         *)
(* Strings are sequences of Unicode code points (the regular expressions   *)
(* of the source carry the u flag, so they work on code points).  Element  *)
(* instances are the integers 1..N; 0 stands for "no object" (an absent    *)
(* shadow property, or null).                                              *)
(***************************************************************************)
EXTENDS Integers, Sequences, FiniteSets, TLC

VARIABLES
    shadow,       \* Elem -> the fields the constructor sets (realName, name, void, raw, escapable)
    attributes,   \* Elem -> shadow.attributes, the [name, value] properties in creation order
    children,     \* Elem -> shadow.children, a sequence of entries (holes included)
    parent,       \* Elem -> shadow.parent (None when the property is absent)
    parentIndex,  \* Elem -> shadow.parentIndex (NoIndex when the property is absent)
    document,     \* Elem -> shadow.document (None when the property is absent)
    last,         \* the last call made and how it ended
    work,         \* calls made so far plus arguments passed to them
    text,         \* input of the pure text functions
    result        \* what the pure text functions returned on that input

vars == <<shadow, attributes, children, parent, parentIndex, document, last, work, text, result>>

treeVars == <<shadow, attributes, children, parent, parentIndex, document>>

None == 0

NoIndex == -1

(***************************************************************************)
(* Strings of the source, as code points.                                  *)
(***************************************************************************)
VOID_ELEMENTS ==
    { <<97, 114, 101, 97>>,            \* area
      <<98, 97, 115, 101>>,            \* base
      <<98, 114>>,                     \* br
      <<99, 111, 108>>,                \* col
      <<101, 109, 98, 101, 100>>,      \* embed
      <<104, 114>>,                    \* hr
      <<105, 109, 103>>,               \* img
      <<105, 110, 112, 117, 116>>,     \* input
      <<108, 105, 110, 107>>,          \* link
      <<109, 101, 116, 97>>,           \* meta
      <<112, 97, 114, 97, 109>>,       \* param
      <<115, 111, 117, 114, 99, 101>>, \* source
      <<116, 114, 97, 99, 107>>,       \* track
      <<119, 98, 114>> }               \* wbr

RAW_TEXT_ELEMENTS ==
    { <<115, 99, 114, 105, 112, 116>>, \* script
      <<115, 116, 121, 108, 101>> }    \* style

ESCAPABLE_RAW_TEXT_ELEMENTS ==
    { <<116, 101, 120, 116, 97, 114, 101, 97>>, \* textarea
      <<116, 105, 116, 108, 101>> }             \* title

\* validateToken: the whole string is an NCName, or two NCNames around one ':'
\* (the pattern of src/index.js line 71).
IsNameStart(c) == c = 95 \/ c \in 65..90 \/ c \in 97..122

IsNameChar(c) == c = 45 \/ c = 95 \/ c = 46 \/ c \in 65..90 \/ c \in 97..122 \/ c \in 48..57

IsNCName(s) ==
    /\ Len(s) >= 1
    /\ IsNameStart(s[1])
    /\ \A i \in 2..Len(s) : IsNameChar(s[i])

validateToken(token) ==
    \/ IsNCName(token)
    \/ \E k \in 1..Len(token) :
          /\ token[k] = 58
          /\ IsNCName(SubSeq(token, 1, k - 1))
          /\ IsNCName(SubSeq(token, k + 1, Len(token)))

\* validateText: every code point is in the character class of src/index.js
\* line 78: u{9} u{a} u{d} u{20}-u{d7ff} u{e000} u{fffd} u{10000}-u{10ffff}.
\* The class lists U+E000 and U+FFFD as two single code points: the source has
\* no '-' between them.
InTextClass(c) ==
    \/ c = 9
    \/ c = 10
    \/ c = 13
    \/ c \in 32..55295
    \/ c = 57344
    \/ c = 65533
    \/ c \in 65536..1114111

validateText(t) == \A i \in 1..Len(t) : InTextClass(t[i])

(***************************************************************************)
(* escapeText: five global replacements, applied one after the other.      *)
(***************************************************************************)
RECURSIVE ReplaceAll(_, _, _)
ReplaceAll(s, c, by) ==
    IF s = <<>> THEN <<>>
    ELSE (IF Head(s) = c THEN by ELSE <<Head(s)>>) \o ReplaceAll(Tail(s), c, by)

Replaced(t) ==
    LET s1 == ReplaceAll(t, 38, <<38, 97, 109, 112, 59>>)         \* & -> &amp;
        s2 == ReplaceAll(s1, 60, <<38, 108, 116, 59>>)            \* < -> &lt;
        s3 == ReplaceAll(s2, 62, <<38, 103, 116, 59>>)            \* > -> &gt;
        s4 == ReplaceAll(s3, 39, <<38, 97, 112, 111, 115, 59>>)   \* ' -> &apos;
    IN  ReplaceAll(s4, 34, <<38, 113, 117, 111, 116, 59>>)        \* " -> &quot;

\* The value returned, or thrown |-> TRUE for TypeError ('Invalid text data').
escapeText(t) ==
    IF ~validateText(t) THEN [thrown |-> TRUE, value |-> <<>>]
    ELSE [thrown |-> FALSE, value |-> Replaced(t)]

(***************************************************************************)
(* The object graph.  A heap h is the record of the shadow objects of all  *)
(* Elements: h.shadow, h.attributes, h.children, h.parent, h.parentIndex,  *)
(* h.document, each a function on Elems.                                   *)
(***************************************************************************)

\* Entries of a children array and arguments of append: an Element, a string,
\* or a hole (a deleted array slot, whose typeof is 'undefined').
Hole == [kind |-> "hole", elem |-> None, text |-> <<>>]

ElemEntry(e) == [kind |-> "elem", elem |-> e, text |-> <<>>]

TextEntry(t) == [kind |-> "text", elem |-> None, text |-> t]

\* The messages of the TypeErrors the source throws; NoError for a normal return.
NoError == ""

ErrUnsafeTagName == "Unsafe tag name"

ErrVoid == "Void element"

ErrNotEscapable == "Raw text elements should not have contents"

ErrAlreadyChild == "Already a child"

ErrRawTextChild == "Raw text elements cannot have element children"

ErrCyclic == "Cyclic reference"

ErrInvalidText == "Invalid text data"

ErrUnsafeAttrName == "Unsafe atttribute name"

ErrUnsafeAttrValue == "Unsafe atttribute value"

\* String.prototype.toLowerCase on a name that passed validateToken (ASCII only).
toLowerCase(s) == [i \in 1..Len(s) |-> IF s[i] \in 65..90 THEN s[i] + 32 ELSE s[i]]

\* String.prototype.toUpperCase, likewise.
toUpperCase(s) == [i \in 1..Len(s) |-> IF s[i] \in 97..122 THEN s[i] - 32 ELSE s[i]]

\* ElementShadow with the category lookups done on the name as given, not on its
\* lower-case form.
ElementShadow_CaseSensitive(tagName) ==
    [ realName  |-> tagName,
      name      |-> toLowerCase(tagName),
      void      |-> tagName \in VOID_ELEMENTS,
      raw       |-> tagName \in RAW_TEXT_ELEMENTS \/ tagName \in ESCAPABLE_RAW_TEXT_ELEMENTS,
      escapable |-> tagName \notin RAW_TEXT_ELEMENTS ]

\* The shadow fields the constructor derives from tagName.
ElementShadow(tagName) ==
    LET name == toLowerCase(tagName)
    IN  [ realName  |-> tagName,
          name      |-> name,
          void      |-> name \in VOID_ELEMENTS,
          raw       |-> name \in RAW_TEXT_ELEMENTS \/ name \in ESCAPABLE_RAW_TEXT_ELEMENTS,
          escapable |-> name \notin RAW_TEXT_ELEMENTS ]

\* The shadow of an instance that does not exist (yet).
NoShadow == [realName |-> <<>>, name |-> <<>>, void |-> FALSE, raw |-> FALSE, escapable |-> FALSE]

\* new Element (tagName), the new instance being e.
ElementConstructor(h, e, tagName) ==
    IF ~validateToken(tagName) THEN [heap |-> h, err |-> ErrUnsafeTagName]
    ELSE [ heap |-> [h EXCEPT !.shadow[e] = ElementShadow(tagName),
                              !.attributes[e] = <<>>,
                              !.children[e] = <<>>],
           err |-> NoError ]

\* get parentElement: shadow.parent || null
parentElement(h, e) == h.parent[e]

\* OnParentChain without the walk: only this itself is compared with child.
OnParentChain_SelfOnly(h, current, child) == current = child

\* The do .. while of append: does the parent chain from current contain child?
RECURSIVE OnParentChain(_, _, _)
OnParentChain(h, current, child) ==
    IF current = child THEN TRUE
    ELSE IF parentElement(h, current) = None THEN FALSE
    ELSE OnParentChain(h, parentElement(h, current), child)

\* ArgError without the check that a raw-text receiver takes no Element.
ArgError_NoRawCheck(h, this, child) ==
    IF child.kind = "elem"
    THEN IF parentElement(h, child.elem) # None THEN ErrAlreadyChild
         ELSE IF OnParentChain(h, this, child.elem) THEN ErrCyclic
         ELSE NoError
    ELSE IF ~validateText(child.text) THEN ErrInvalidText
         ELSE NoError

\* What the validation of one argument throws, if anything.
ArgError(h, this, child) ==
    IF child.kind = "elem"
    THEN IF parentElement(h, child.elem) # None THEN ErrAlreadyChild
         ELSE IF h.shadow[this].raw THEN ErrRawTextChild
         ELSE IF OnParentChain(h, this, child.elem) THEN ErrCyclic
         ELSE NoError
    ELSE IF ~validateText(child.text) THEN ErrInvalidText
         ELSE NoError

\* First loop of append: the first argument, in order, that fails validation.
RECURSIVE FirstPass(_, _, _, _)
FirstPass(h, this, args, i) ==
    IF i > Len(args) THEN NoError
    ELSE IF ArgError(h, this, args[i]) # NoError THEN ArgError(h, this, args[i])
    ELSE FirstPass(h, this, args, i + 1)

\* The position append records for an Element argument.
RecordedIndex(h, this) == Len(h.children[this])

\* Second loop of append: set the links of the Element arguments; the entries
\* themselves are collected and pushed after the loop.
RECURSIVE SecondPass(_, _, _, _)
SecondPass(h, this, args, i) ==
    IF i > Len(args) THEN h
    ELSE IF args[i].kind = "elem"
         THEN SecondPass([h EXCEPT !.parent[args[i].elem] = this,
                                   !.parentIndex[args[i].elem] = RecordedIndex(h, this)],
                         this, args, i + 1)
         ELSE SecondPass(h, this, args, i + 1)

\* append with one loop instead of two: each argument is validated and linked in
\* turn, so a later argument that fails leaves the earlier ones linked.
RECURSIVE SinglePass(_, _, _, _)
SinglePass(h, this, args, i) ==
    IF i > Len(args)
    THEN [heap |-> [h EXCEPT !.children[this] = @ \o args], err |-> NoError]
    ELSE IF ArgError(h, this, args[i]) # NoError
         THEN [heap |-> h, err |-> ArgError(h, this, args[i])]
    ELSE IF args[i].kind = "elem"
         THEN SinglePass([h EXCEPT !.parent[args[i].elem] = this,
                                   !.parentIndex[args[i].elem] = RecordedIndex(h, this)],
                         this, args, i + 1)
         ELSE SinglePass(h, this, args, i + 1)

append_SinglePass(h, this, args) ==
    IF h.shadow[this].void THEN [heap |-> h, err |-> ErrVoid]
    ELSE IF ~h.shadow[this].escapable THEN [heap |-> h, err |-> ErrNotEscapable]
    ELSE SinglePass(h, this, args, 1)

\* append (...children)
append(h, this, args) ==
    IF h.shadow[this].void THEN [heap |-> h, err |-> ErrVoid]
    ELSE IF ~h.shadow[this].escapable THEN [heap |-> h, err |-> ErrNotEscapable]
    ELSE IF FirstPass(h, this, args, 1) # NoError
         THEN [heap |-> h, err |-> FirstPass(h, this, args, 1)]
    ELSE LET linked == SecondPass(h, this, args, 1)
         IN  [ heap |-> [linked EXCEPT !.children[this] = h.children[this] \o args],
               err |-> NoError ]

\* delete array[index]: the slot becomes a hole, the length stays.
DeleteSlot(array, index) ==
    IF index >= 0 /\ index < Len(array) THEN [array EXCEPT ![index + 1] = Hole]
    ELSE array

\* remove () that also empties the children array of the removed Element.
remove_Deep(h, this) ==
    IF h.parent[this] = None THEN h
    ELSE [h EXCEPT !.children[h.parent[this]] = DeleteSlot(@, h.parentIndex[this]),
                   !.children[this] = <<>>,
                   !.parent[this] = None,
                   !.parentIndex[this] = NoIndex]

\* remove ()
remove(h, this) ==
    IF h.parent[this] = None THEN h
    ELSE [h EXCEPT !.children[h.parent[this]] = DeleteSlot(@, h.parentIndex[this]),
                   !.parent[this] = None,
                   !.parentIndex[this] = NoIndex]

\* The loop of clear, from array position i (1-based) on: every Element entry
\* met is removed, whatever remove () then does to the heap.
RECURSIVE ClearLoop(_, _, _)
ClearLoop(h, this, i) ==
    IF i > Len(h.children[this]) THEN h
    ELSE IF h.children[this][i].kind = "elem"
         THEN ClearLoop(remove(h, h.children[this][i].elem), this, i + 1)
         ELSE ClearLoop(h, this, i + 1)

\* clear ()
clear(h, this) == [ClearLoop(h, this, 1) EXCEPT !.children[this] = <<>>]

\* set innerText: clear, then append the text; what append throws propagates.
setInnerText(h, this, aText) == append(clear(h, this), this, <<TextEntry(aText)>>)

\* shadow.attributes is an object without prototype: its own properties in the
\* order they were created, here a sequence of [name, value] records with
\* distinct names.
HasName(attrs, name) == \E i \in DOMAIN attrs : attrs[i].name = name

\* attrs[name] = value: an existing property keeps its place, a new one goes last.
PutProperty(attrs, name, value) ==
    IF HasName(attrs, name)
    THEN [i \in DOMAIN attrs |-> IF attrs[i].name = name
                                  THEN [name |-> name, value |-> value] ELSE attrs[i]]
    ELSE Append(attrs, [name |-> name, value |-> value])

\* delete attrs[name]
DeleteProperty(attrs, name) == SelectSeq(attrs, LAMBDA a : a.name # name)

\* setAttribute without the validation of the value.
setAttribute_NoValueCheck(h, this, name, value) ==
    IF ~validateToken(name) THEN [heap |-> h, err |-> ErrUnsafeAttrName]
    ELSE [ heap |-> [h EXCEPT !.attributes[this] = PutProperty(@, name, value)],
           err |-> NoError ]

\* setAttribute (name, value)
setAttribute(h, this, name, value) ==
    IF ~validateToken(name) THEN [heap |-> h, err |-> ErrUnsafeAttrName]
    ELSE IF ~validateText(value) THEN [heap |-> h, err |-> ErrUnsafeAttrValue]
    ELSE [ heap |-> [h EXCEPT !.attributes[this] = PutProperty(@, name, value)],
           err |-> NoError ]

\* getAttribute (name): the value, or undefined.
getAttribute(h, this, name) ==
    IF HasName(h.attributes[this], name)
    THEN [undefined |-> FALSE,
          value |-> h.attributes[this][CHOOSE i \in DOMAIN h.attributes[this] :
                                          h.attributes[this][i].name = name].value]
    ELSE [undefined |-> TRUE, value |-> <<>>]

\* hasAttribute (name)
hasAttribute(h, this, name) == HasName(h.attributes[this], name)

\* removeAttribute (name)
removeAttribute(h, this, name) ==
    [h EXCEPT !.attributes[this] = DeleteProperty(@, name)]

\* get children: the array without its holes.
childrenView(h, e) == SelectSeq(h.children[e], LAMBDA c : c.kind # "hole")

\* What a read accessor gives: the string it returns, or thrown |-> TRUE when it
\* ends with an exception instead.
Returns(value) == [thrown |-> FALSE, value |-> value]

Throws == [thrown |-> TRUE, value |-> <<>>]

\* The recursion of the read accessors: outerHTML calls innerHTML, which calls
\* toString, so outerHTML, on every Element child (html = TRUE; a void Element
\* does not call innerHTML); innerText calls innerText on every Element child
\* (html = FALSE).  active holds the Elements whose call has not returned yet.
\* TRUE when the recursion calls an Element that is active: that call repeats the
\* call it is nested in, so none of them returns; the engine ends the read with a
\* RangeError once the stack is full.  (The text entries met on the way passed
\* validateText in append, so escapeText does not throw before.)
RECURSIVE Reenters(_, _, _, _)
Reenters(h, e, active, html) ==
    \/ e \in active
    \/ /\ ~(html /\ h.shadow[e].void)
       /\ \E i \in DOMAIN h.children[e] :
             /\ h.children[e][i].kind = "elem"
             /\ Reenters(h, h.children[e][i].elem, active \cup {e}, html)

\* get innerText, from array position i on: the texts of the subtree, escaped.
RECURSIVE InnerTextFrom(_, _, _)
InnerTextFrom(h, e, i) ==
    IF i > Len(h.children[e]) THEN [thrown |-> FALSE, value |-> <<>>]
    ELSE LET child == h.children[e][i]
             piece == IF child.kind = "hole" THEN [thrown |-> FALSE, value |-> <<>>]
                      ELSE IF child.kind = "elem" THEN InnerTextFrom(h, child.elem, 1)
                      ELSE escapeText(child.text)
             rest  == InnerTextFrom(h, e, i + 1)
         IN  IF piece.thrown \/ rest.thrown THEN [thrown |-> TRUE, value |-> <<>>]
             ELSE [thrown |-> FALSE, value |-> piece.value \o rest.value]

\* get innerText
innerText(h, e) == IF Reenters(h, e, {}, FALSE) THEN Throws ELSE InnerTextFrom(h, e, 1)

\* Reflect.ownKeys (shadow.attributes): the names, in creation order.
ownKeys(attrs) == [i \in DOMAIN attrs |-> attrs[i].name]

\* The order Array.prototype.sort puts strings in: by code units, a proper prefix
\* first (names that passed validateToken are ASCII, one code unit per code point).
LexLess(a, b) ==
    \E i \in 1..(Len(a) + 1) :
        /\ \A j \in 1..(i - 1) : j <= Len(b) /\ a[j] = b[j]
        /\ \/ i = Len(a) + 1 /\ Len(b) >= i
           \/ i <= Len(a) /\ i <= Len(b) /\ a[i] < b[i]

RECURSIVE InsertSorted(_, _)
InsertSorted(sorted, x) ==
    IF sorted = <<>> THEN <<x>>
    ELSE IF LexLess(x, Head(sorted)) THEN <<x>> \o sorted
    ELSE <<Head(sorted)>> \o InsertSorted(Tail(sorted), x)

\* The keys left in the order they come in.
sort_Unsorted(keys) == keys

\* keys.sort ()
RECURSIVE sort(_)
sort(keys) == IF keys = <<>> THEN <<>> ELSE InsertSorted(sort(Tail(keys)), Head(keys))

\* shadow.attributes[name]
PropertyValue(attrs, name) == attrs[CHOOSE i \in DOMAIN attrs : attrs[i].name = name].value

\* The loop of outerHTML over the sorted keys, from the k-th on: tab, name, =,
\* the escaped value in single quotes.
RECURSIVE AttributesHTML(_, _, _)
AttributesHTML(attrs, keys, k) ==
    IF k > Len(keys) THEN Returns(<<>>)
    ELSE LET value == escapeText(PropertyValue(attrs, keys[k]))
             rest  == AttributesHTML(attrs, keys, k + 1)
         IN  IF value.thrown \/ rest.thrown THEN Throws
             ELSE Returns(<<9>> \o keys[k] \o <<61, 39>> \o value.value \o <<39>> \o rest.value)

\* get outerHTML and get innerHTML (from array position i on) call each other.
RECURSIVE OuterHTMLOf(_, _)
RECURSIVE InnerHTMLFrom(_, _, _)
InnerHTMLFrom(h, e, i) ==
    IF i > Len(h.children[e]) THEN Returns(<<>>)
    ELSE LET child == h.children[e][i]
             piece == IF child.kind = "hole" THEN Returns(<<>>)
                      ELSE IF child.kind = "elem" THEN OuterHTMLOf(h, child.elem)
                      ELSE escapeText(child.text)
             rest  == InnerHTMLFrom(h, e, i + 1)
         IN  IF piece.thrown \/ rest.thrown THEN Throws
             ELSE Returns(piece.value \o rest.value)

OuterHTMLOf(h, e) ==
    LET realName == h.shadow[e].realName
        keys     == sort(ownKeys(h.attributes[e]))
        attrs    == AttributesHTML(h.attributes[e], keys, 1)
        inner    == IF h.shadow[e].void THEN Returns(<<>>) ELSE InnerHTMLFrom(h, e, 1)
    IN  IF attrs.thrown \/ inner.thrown THEN Throws
        ELSE Returns(<<60>> \o realName \o attrs.value \o
                     (IF h.shadow[e].void THEN <<47, 62>>
                      ELSE <<62>> \o inner.value \o <<60, 47>> \o realName \o <<62>>))

\* get innerHTML
innerHTML(h, e) == IF Reenters(h, e, {}, TRUE) THEN Throws ELSE InnerHTMLFrom(h, e, 1)

\* get outerHTML
outerHTML(h, e) == IF Reenters(h, e, {}, TRUE) THEN Throws ELSE OuterHTMLOf(h, e)

\* toString ()
toString(h, e) == outerHTML(h, e)

\* ownerDocument without the walk: the document stored on the Element itself.
ownerDocument_Own(h, e) == h.document[e]

\* get ownerDocument: the document stored on the Element the parent chain ends at.
RECURSIVE ownerDocument(_, _)
ownerDocument(h, e) ==
    IF h.parent[e] # None THEN ownerDocument(h, h.parent[e]) ELSE h.document[e]

(***************************************************************************)
(* The state machine: a pool of constructed Elements and the calls a       *)
(* program can make on them.                                               *)
(***************************************************************************)

\* The tag names a pool of Elements is constructed with; a behaviour starts
\* from one of these pools.
Pools ==
    { << <<100, 105, 118>>, <<80>>, <<115, 112, 97, 110>> >>,                 \* div, P, span
      << <<100, 105, 118>>, <<66, 82>>, <<84, 105, 116, 108, 101>> >>,        \* div, BR, Title
      << <<100, 105, 118>>, <<115, 99, 114, 105, 112, 116>>,
         <<84, 69, 88, 84, 65, 82, 69, 65>> >> }                              \* div, script, TEXTAREA

\* The Element instances that exist.
Elems == DOMAIN shadow

\* Text arguments the calls draw from: "a" and the invalid U+0000.
Texts == { <<97>>, <<0>> }

\* The size of a behaviour: the calls it makes plus the arguments it passes.
MaxWork == 6

Args == {ElemEntry(e) : e \in Elems} \cup {TextEntry(t) : t \in Texts}

\* The argument lists an append call can still be given.
ArgLists == UNION {[1..n -> Args] : n \in 0..(MaxWork - work - 1)}

Heap ==
    [ shadow |-> shadow, attributes |-> attributes, children |-> children,
      parent |-> parent, parentIndex |-> parentIndex, document |-> document ]

\* The heap before any constructor ran, for the instances of E.
EmptyHeap(E) ==
    [ shadow      |-> [e \in E |-> NoShadow],
      attributes  |-> [e \in E |-> <<>>],
      children    |-> [e \in E |-> <<>>],
      parent      |-> [e \in E |-> None],
      parentIndex |-> [e \in E |-> NoIndex],
      document    |-> [e \in E |-> None] ]

\* new Element (tags[e]) for every e from i on.
RECURSIVE ConstructAll(_, _, _)
ConstructAll(h, tags, i) ==
    IF i > Len(tags) THEN h
    ELSE ConstructAll(ElementConstructor(h, i, tags[i]).heap, tags, i + 1)

\* The heap once every Element of the pool is constructed.
PoolHeap(tags) == ConstructAll(EmptyHeap(DOMAIN tags), tags, 1)

Holds(h) ==
    /\ shadow = h.shadow
    /\ attributes = h.attributes
    /\ children = h.children
    /\ parent = h.parent
    /\ parentIndex = h.parentIndex
    /\ document = h.document

Commit(h) ==
    /\ shadow' = h.shadow
    /\ attributes' = h.attributes
    /\ children' = h.children
    /\ parent' = h.parent
    /\ parentIndex' = h.parentIndex
    /\ document' = h.document

\* The position (1-based) of the argument append's validation loop throws at;
\* 0 when no argument is at fault.
RECURSIVE BadIndex(_, _, _, _)
BadIndex(h, this, args, i) ==
    IF i > Len(args) THEN 0
    ELSE IF ArgError(h, this, args[i]) # NoError THEN i
    ELSE BadIndex(h, this, args, i + 1)

BadArg(h, this, args) ==
    IF h.shadow[this].void \/ ~h.shadow[this].escapable THEN 0
    ELSE BadIndex(h, this, args, 1)

\* A call: the method, its receiver, the message of the error it threw, and the
\* position and value of the argument it threw at (0 and Hole when there is none).
Call(op, this, args, bad, err) ==
    [ op |-> op, this |-> this, err |-> err, bad |-> bad,
      arg |-> IF bad = 0 THEN Hole ELSE args[bad] ]

Start ==
    /\ last = Call("new", None, <<>>, 0, NoError)
    /\ work = 0
    /\ text = <<>>
    /\ result = [fn |-> "none", ok |-> FALSE, value |-> <<>>]

Init ==
    /\ \E tags \in Pools : Holds(PoolHeap(tags))
    /\ Start

\* this.append (...args)
DoAppend(this, args) ==
    LET r == append(Heap, this, args)
    IN  /\ work + 1 + Len(args) <= MaxWork
        /\ Commit(r.heap)
        /\ last' = Call("append", this, args, BadArg(Heap, this, args), r.err)
        /\ work' = work + 1 + Len(args)
        /\ UNCHANGED <<text, result>>

\* this.remove ()
DoRemove(this) ==
    /\ work + 1 <= MaxWork
    /\ Commit(remove(Heap, this))
    /\ last' = Call("remove", this, <<>>, 0, NoError)
    /\ work' = work + 1
    /\ UNCHANGED <<text, result>>

\* this.clear ()
DoClear(this) ==
    /\ work + 1 <= MaxWork
    /\ Commit(clear(Heap, this))
    /\ last' = Call("clear", this, <<>>, 0, NoError)
    /\ work' = work + 1
    /\ UNCHANGED <<text, result>>

\* this.innerText = aText
DoSetInnerText(this, aText) ==
    LET r == setInnerText(Heap, this, aText)
    IN  /\ work + 2 <= MaxWork
        /\ Commit(r.heap)
        /\ last' = Call("innerText", this, <<TextEntry(aText)>>, BadArg(clear(Heap, this), this, <<TextEntry(aText)>>), r.err)
        /\ work' = work + 2
        /\ UNCHANGED <<text, result>>

Next ==
    \/ \E this \in Elems, args \in ArgLists : DoAppend(this, args)
    \/ \E this \in Elems : DoRemove(this)
    \/ \E this \in Elems : DoClear(this)
    \/ \E this \in Elems, aText \in Texts : DoSetInnerText(this, aText)

Spec == Init /\ [][Next]_vars

(***************************************************************************)
(* The Document: its constructor and its title accessors.                  *)
(***************************************************************************)

\* The instances the Document constructor creates, in creation order, and the
\* Document itself.
DocHtml == 1

DocHead == 2

DocBody == 3

DocCharset == 4

DocTitle == 5

TheDocument == 1

\* createElement (tagName), the new instance being e.
createElement(h, e, tagName) == ElementConstructor(h, e, tagName)

\* new Document (): the calls of the constructor, in order.
DocumentConstructor(h) ==
    LET h1  == createElement(h, DocHtml, <<104, 116, 109, 108>>).heap              \* html
        h2  == [h1 EXCEPT !.document[DocHtml] = TheDocument]
        h3  == setAttribute(h2, DocHtml, <<120, 109, 108, 110, 115>>,               \* xmlns
                  <<104, 116, 116, 112, 58, 47, 47, 119, 119, 119, 46, 119, 51, 46, 111, 114,
                    103, 47, 49, 57, 57, 57, 47, 120, 104, 116, 109, 108>>).heap
        h4  == setAttribute(h3, DocHtml,
                  <<120, 109, 108, 110, 115, 58, 120, 108, 105, 110, 107>>,         \* xmlns:xlink
                  <<104, 116, 116, 112, 58, 47, 47, 119, 119, 119, 46, 119, 51, 46, 111, 114,
                    103, 47, 49, 57, 57, 57, 47, 120, 108, 105, 110, 107>>).heap
        h5  == createElement(h4, DocHead, <<104, 101, 97, 100>>).heap              \* head
        h6  == append(h5, DocHtml, <<ElemEntry(DocHead)>>).heap
        h7  == createElement(h6, DocBody, <<98, 111, 100, 121>>).heap              \* body
        h8  == append(h7, DocHtml, <<ElemEntry(DocBody)>>).heap
        h9  == createElement(h8, DocCharset, <<109, 101, 116, 97>>).heap           \* meta
        h10 == setAttribute(h9, DocCharset, <<99, 104, 97, 114, 115, 101, 116>>,   \* charset
                  <<85, 84, 70, 45, 56>>).heap                                      \* UTF-8
        h11 == append(h10, DocHead, <<ElemEntry(DocCharset)>>).heap
        h12 == createElement(h11, DocTitle, <<116, 105, 116, 108, 101>>).heap     \* title
    IN  append(h12, DocHead, <<ElemEntry(DocTitle)>>).heap

\* get title
getTitle(h) == innerText(h, DocTitle)

\* set title
setTitle(h, aTitle) == setInnerText(h, DocTitle, aTitle)

\* The instances of a program that makes a Document and then one more Element.
DocElems == {DocHtml, DocHead, DocBody, DocCharset, DocTitle} \cup {DocTitle + 1}

\* The heap after new Document () and document.createElement ('div').
DocHeap ==
    createElement(DocumentConstructor(EmptyHeap(DocElems)), DocTitle + 1, <<100, 105, 118>>).heap

\* Titles written: "", "a", the five escaped characters, "a&b", and the invalid U+0000.
TitleTexts ==
    { <<>>, <<97>>, <<38>>, <<60>>, <<62>>, <<39>>, <<34>>, <<97, 38, 98>>, <<0>> }

InitDoc ==
    /\ Holds(DocHeap)
    /\ Start

\* document.title = aTitle
DoSetTitle(aTitle) ==
    LET r == setTitle(Heap, aTitle)
    IN  /\ work + 2 <= MaxWork
        /\ Commit(r.heap)
        /\ last' = Call("title", DocTitle, <<TextEntry(aTitle)>>,
                        BadArg(clear(Heap, DocTitle), DocTitle, <<TextEntry(aTitle)>>), r.err)
        /\ work' = work + 2
        /\ text' = aTitle
        /\ UNCHANGED result

\* A program working on a Document: title writes, and one-argument append,
\* remove and clear on the Elements of the Document and the extra one.
NextDoc ==
    \/ \E aTitle \in TitleTexts : DoSetTitle(aTitle)
    \/ \E this \in Elems, a \in Args : DoAppend(this, <<a>>)
    \/ \E this \in Elems : DoRemove(this)
    \/ \E this \in Elems : DoClear(this)

SpecDoc == InitDoc /\ [][NextDoc]_vars

(***************************************************************************)
(* The text functions on their own: a string is drawn, then one of the     *)
(* functions that validate text is applied to it.                          *)
(***************************************************************************)

\* Code points at and around the ends of the ranges of the Text grammar.
\* and the five characters escapeText replaces.
TextCodePoints ==
    { 0, 8, 9, 10, 11, 13, 31, 32, 34, 38, 39, 60, 62, 55295, 55296, 57343, 57344,
      57345, 61440, 65532, 65533, 65534, 65535, 65536, 1114111 }

MaxTextLen == 2

\* Texts that already spell an entity: "&amp;", "&lt;", "&amp;lt;" and "&quot;&".
EntityTexts ==
    { <<38, 97, 109, 112, 59>>, <<38, 108, 116, 59>>,
      <<38, 97, 109, 112, 59, 108, 116, 59>>, <<38, 113, 117, 111, 116, 59, 38>> }

TextInputs == UNION {[1..n -> TextCodePoints] : n \in 0..MaxTextLen} \cup EntityTexts

\* One div Element, to call append and setAttribute on.
TextHeap == PoolHeap(<< <<100, 105, 118>> >>)

\* What a function returned: ok is its boolean result, or whether it returned
\* without throwing; value is the string it returned, if any.
Returned(fn, ok, value) == [fn |-> fn, ok |-> ok, value |-> value]

InitText ==
    /\ Holds(TextHeap)
    /\ last = Call("new", None, <<>>, 0, NoError)
    /\ work = 0
    /\ text \in TextInputs
    /\ result = Returned("none", FALSE, <<>>)

\* Element.validateText (text)
DoValidateText ==
    /\ result.fn = "none"
    /\ result' = Returned("validateText", validateText(text), <<>>)
    /\ UNCHANGED <<treeVars, last, work, text>>

\* Element.escapeText (text)
DoEscapeText ==
    /\ result.fn = "none"
    /\ result' = Returned("escapeText", ~escapeText(text).thrown, escapeText(text).value)
    /\ UNCHANGED <<treeVars, last, work, text>>

\* div.append (text)
DoAppendText ==
    LET r == append(Heap, 1, <<TextEntry(text)>>)
    IN  /\ result.fn = "none"
        /\ Commit(r.heap)
        /\ last' = Call("append", 1, <<TextEntry(text)>>, BadArg(Heap, 1, <<TextEntry(text)>>), r.err)
        /\ work' = work + 1
        /\ result' = Returned("append", r.err = NoError, <<>>)
        /\ UNCHANGED text

\* div.setAttribute ('id', text)
DoSetAttributeText ==
    LET r == setAttribute(Heap, 1, <<105, 100>>, text)
    IN  /\ result.fn = "none"
        /\ Commit(r.heap)
        /\ last' = Call("setAttribute", 1, <<>>, 0, r.err)
        /\ work' = work + 1
        /\ result' = Returned("setAttribute", r.err = NoError, <<>>)
        /\ UNCHANGED text

NextText == DoValidateText \/ DoEscapeText \/ DoAppendText \/ DoSetAttributeText

SpecText == InitText /\ [][NextText]_vars

(***************************************************************************)
(* Attributes and serialization: two div Elements with the same content,   *)
(* the attribute calls a program can make on them, and the outerHTML read. *)
(***************************************************************************)

\* Attribute names the calls draw from: "b", "a:b" and the invalid "1" and ":b".
AttrNames == { <<98>>, <<97, 58, 98>>, <<49>>, <<58, 98>> }

\* Attribute values the calls draw from: "x", "<" and the invalid U+0000.
AttrValues == { <<120>>, <<60>>, <<0>> }

\* Two div Elements, each holding the text "<".
AttrHeap ==
    LET h1 == append(PoolHeap(<< <<100, 105, 118>>, <<100, 105, 118>> >>), 1,
                     <<TextEntry(<<60>>)>>).heap
    IN  append(h1, 2, <<TextEntry(<<60>>)>>).heap

InitAttr ==
    /\ Holds(AttrHeap)
    /\ Start

\* this.setAttribute (name, value); text keeps the name the call was given.
DoSetAttribute(this, name, value) ==
    LET r == setAttribute(Heap, this, name, value)
    IN  /\ Commit(r.heap)
        /\ last' = Call("setAttribute", this, <<TextEntry(name), TextEntry(value)>>,
                        IF r.err = ErrUnsafeAttrName THEN 1
                        ELSE IF r.err = ErrUnsafeAttrValue THEN 2 ELSE 0, r.err)
        /\ text' = name
        /\ UNCHANGED <<work, result>>

\* this.removeAttribute (name)
DoRemoveAttribute(this, name) ==
    /\ Commit(removeAttribute(Heap, this, name))
    /\ last' = Call("removeAttribute", this, <<>>, 0, NoError)
    /\ text' = name
    /\ UNCHANGED <<work, result>>

\* this.outerHTML
DoOuterHTML(this) ==
    LET r == outerHTML(Heap, this)
    IN  /\ result' = Returned("outerHTML", ~r.thrown, r.value)
        /\ last' = Call("outerHTML", this, <<>>, 0, NoError)
        /\ UNCHANGED <<treeVars, work, text>>

NextAttr ==
    \/ \E this \in Elems, name \in AttrNames, value \in AttrValues :
          DoSetAttribute(this, name, value)
    \/ \E this \in Elems, name \in AttrNames : DoRemoveAttribute(this, name)
    \/ \E this \in Elems : DoOuterHTML(this)

SpecAttr == InitAttr /\ [][NextAttr]_vars

(***************************************************************************)
(* Properties of the Element tree.                                         *)
(***************************************************************************)

\* The Elements that occur in the children array of p.
ChildElems(p) ==
    {children[p][i].elem : i \in {j \in DOMAIN children[p] : children[p][j].kind = "elem"}}

RECURSIVE ReachedIn(_, _)
ReachedIn(S, k) ==
    IF k = 0 THEN S ELSE ReachedIn(S \cup UNION {ChildElems(e) : e \in S}, k - 1)

\* The Elements reached from e by following children entries one or more times.
Descendants(e) == ReachedIn(ChildElems(e), Cardinality(Elems))

\* C1: after any sequence of append, remove, clear and innerText-write calls, no
\* Element is reachable from itself by following children entries one or more
\* times (the children relation has no cycle).
C1_NoChildrenCycle == \A e \in Elems : e \notin Descendants(e)

\* C2: no Element is at the same time an entry of the children arrays of two
\* different Elements.
C2_AtMostOneOwner ==
    \A e, p, q \in Elems : (e \in ChildElems(p) /\ e \in ChildElems(q)) => p = q

\* C3: an append call that fails, for whatever reason, leaves the children array
\* of the receiver and the parent link and recorded position of every Element
\* (so of every argument, those before the offending one included) as they were.
C3_AppendAtomic ==
    [][(last'.op = "append" /\ last'.err # NoError)
        => UNCHANGED <<children, parent, parentIndex>>]_vars

\* C3 witness: an append call failed at its second argument,
\* after the first one passed validation.
C3_Witness == last.op = "append" /\ last.bad = 2 /\ last.err # NoError

\* The view with the entries of Element e taken out.
WithoutElem(view, e) == SelectSeq(view, LAMBDA c : c # ElemEntry(e))

\* C4: for an Element e attached to p, e.remove () makes the children view of p
\* the previous view with exactly the entry of e taken out, and leaves
\* e.parentElement null.
C4_RemoveTakesOwnEntry ==
    [][\A e, p \in Elems :
          (last'.op = "remove" /\ last'.this = e /\ parent[e] = p)
          => /\ childrenView(Heap', p) = WithoutElem(childrenView(Heap, p), e)
             /\ parentElement(Heap', e) = None]_vars

\* C5: after p.clear () the children array of p is empty, no Element has p as its
\* parentElement, and every Element whose parentElement was one of the Element
\* entries of p still has that parentElement.
C5_ClearDetachesChildrenOnly ==
    [][\A p \in Elems :
          (last'.op = "clear" /\ last'.this = p)
          => /\ children'[p] = <<>>
             /\ \A e \in Elems : parent'[e] # p
             /\ \A c \in ChildElems(p) : \A x \in Elems : parent[x] = c => parent'[x] = c]_vars
\* The Text grammar: U+0009, U+000A, U+000D, U+0020..U+D7FF, U+E000..U+FFFD,
\* U+10000..U+10FFFF.
InTextGrammar(c) ==
    \/ c \in {9, 10, 13}
    \/ c \in 32..55295
    \/ c \in 57344..65533
    \/ c \in 65536..1114111

SatisfiesTextGrammar(t) == \A i \in DOMAIN t : InTextGrammar(t[i])

\* The tag categories, read off the tag name an Element was constructed with.
LowerName(e) == toLowerCase(shadow[e].realName)

IsVoidTag(e) == LowerName(e) \in VOID_ELEMENTS

IsRawTextTag(e) == LowerName(e) \in RAW_TEXT_ELEMENTS

IsEscapableRawTag(e) == LowerName(e) \in ESCAPABLE_RAW_TEXT_ELEMENTS

RECURSIVE ChainUp(_, _)
ChainUp(e, k) ==
    IF k = 0 \/ parent[e] = None THEN {e} ELSE {e} \cup ChainUp(parent[e], k - 1)

\* x itself and the Elements reached from x by following parent links.
SelfAndAncestors(x) == ChainUp(x, Cardinality(Elems))

\* The Elements among the entries a step has added at the end of the array of x.
AppendedElems(x) ==
    {children'[x][i].elem :
        i \in {j \in (Len(children[x]) + 1)..Len(children'[x]) : children'[x][j].kind = "elem"}}

\* C6 as stated: an append of c onto x, c being x or on the parent chain of x,
\* never succeeds, and when the call throws at c it throws CyclicReferenceError
\* and modifies no children array and no link.
C6_AncestorAppendCyclicError ==
    [][\A x \in Elems :
          (last'.op = "append" /\ last'.this = x)
          => /\ last'.err = NoError => AppendedElems(x) \cap SelfAndAncestors(x) = {}
             /\ (last'.arg.kind = "elem" /\ last'.arg.elem \in SelfAndAncestors(x))
                => /\ last'.err = ErrCyclic
                   /\ UNCHANGED <<children, parent, parentIndex>>]_vars

\* The error of the first check of append that applies to an Element argument c
\* on the parent chain of an ordinary or textarea/title receiver x.
AncestorAppendError(x, c) ==
    IF parent[c] # None THEN ErrAlreadyChild
    ELSE IF IsEscapableRawTag(x) THEN ErrRawTextChild
    ELSE ErrCyclic

\* C6 (amended): for c equal to x or on the parent chain of x, x.append (c) always
\* fails and modifies no children array and no link; the error is
\* VoidElementError when x is void, else NotEscapableError when x is script/style,
\* else AlreadyChildError when c has a parent, else RawTextChildError when x is
\* textarea/title, and CyclicReferenceError otherwise.
C6_AncestorAppendFails ==
    [][\A x \in Elems :
          (last'.op = "append" /\ last'.this = x)
          => /\ last'.err = NoError => AppendedElems(x) \cap SelfAndAncestors(x) = {}
             /\ last'.err # NoError => UNCHANGED <<children, parent, parentIndex>>
             /\ IsVoidTag(x) => last'.err = ErrVoid
             /\ (~IsVoidTag(x) /\ IsRawTextTag(x)) => last'.err = ErrNotEscapable
             /\ (last'.arg.kind = "elem" /\ last'.arg.elem \in SelfAndAncestors(x))
                => last'.err = AncestorAppendError(x, last'.arg.elem)]_vars

\* C6 witness: an Element that has a parent was asked to append the root of its
\* parent chain, and the walk up the chain found it.
C6_Witness ==
    /\ last.op = "append" /\ last.err = ErrCyclic
    /\ parent[last.this] # None
    /\ last.arg.elem \in SelfAndAncestors(last.this) \ {last.this}

\* C7: an Element whose lowercased tag name is in the void set never has an entry
\* in its children array; every append call on it and every innerText write on
\* it fails with VoidElementError and changes nothing.
C7_VoidNeverHasChildren ==
    /\ [](\A e \in Elems : IsVoidTag(e) => children[e] = <<>>)
    /\ [][\A e \in Elems :
             (IsVoidTag(e) /\ last'.this = e /\ last'.op \in {"append", "innerText"})
             => /\ last'.err = ErrVoid
                /\ UNCHANGED treeVars]_vars

\* C7 witness: append was called on an Element constructed with the upper-case
\* name BR, which is attached to a parent, and threw 'Void element'.
C7_Witness ==
    /\ last.op = "append" /\ last.err = ErrVoid
    /\ shadow[last.this].realName = <<66, 82>>
    /\ parent[last.this] # None

\* Raw-category Elements have no Element children and script/style have no
\* children at all; script/style reject every append with NotEscapableError.
RawStaysRaw ==
    /\ [](\A e \in Elems :
            /\ (IsRawTextTag(e) \/ IsEscapableRawTag(e)) => ChildElems(e) = {}
            /\ IsRawTextTag(e) => children[e] = <<>>)
    /\ [][\A e \in Elems :
             (last'.op = "append" /\ last'.this = e /\ IsRawTextTag(e))
             => last'.err = ErrNotEscapable]_vars

\* An append on textarea/title throws only at an Element argument or at a text
\* argument that fails validateText (so a call of texts that pass it succeeds),
\* and then appends nothing; when it succeeds it has appended texts only.
EscapableRawTakesTextOnly ==
    [][\A e \in Elems :
          (last'.op = "append" /\ last'.this = e /\ IsEscapableRawTag(e))
          => /\ last'.err # NoError
                => /\ children'[e] = children[e]
                   /\ \/ last'.arg.kind = "elem"
                      \/ last'.arg.kind = "text" /\ ~validateText(last'.arg.text)
             /\ last'.err = NoError => AppendedElems(e) = {}]_vars

C9_AcceptsExactlyTextGrammar ==
    result.fn # "none" => (result.ok <=> SatisfiesTextGrammar(text))

\* C10: for every string s that satisfies the Text grammar, after document.title = s
\* reading document.title returns exactly s.
C10_TitleRoundTrip ==
    (last.op = "title" /\ SatisfiesTextGrammar(text))
    => getTitle(Heap) = [thrown |-> FALSE, value |-> text]

\* The five entities escapeText writes and the characters they stand for, in the
\* order they are replaced back: &quot; &apos; &gt; &lt; and &amp; last.
Entities ==
    << [entity |-> <<38, 113, 117, 111, 116, 59>>, char |-> 34],
       [entity |-> <<38, 97, 112, 111, 115, 59>>, char |-> 39],
       [entity |-> <<38, 103, 116, 59>>, char |-> 62],
       [entity |-> <<38, 108, 116, 59>>, char |-> 60],
       [entity |-> <<38, 97, 109, 112, 59>>, char |-> 38] >>

StartsWith(s, pat) == Len(s) >= Len(pat) /\ SubSeq(s, 1, Len(pat)) = pat

\* Every occurrence of pat in s, left to right, replaced by the character c.
RECURSIVE ReplaceEntity(_, _, _)
ReplaceEntity(s, pat, c) ==
    IF s = <<>> THEN <<>>
    ELSE IF StartsWith(s, pat)
         THEN <<c>> \o ReplaceEntity(SubSeq(s, Len(pat) + 1, Len(s)), pat, c)
         ELSE <<Head(s)>> \o ReplaceEntity(Tail(s), pat, c)

RECURSIVE UnescapeFrom(_, _)
UnescapeFrom(s, k) ==
    IF k > Len(Entities) THEN s
    ELSE UnescapeFrom(ReplaceEntity(s, Entities[k].entity, Entities[k].char), k + 1)

unescape(s) == UnescapeFrom(s, 1)

\* s has none of < > ' " and every & of s starts one of the five entities.
IsEscaped(s) ==
    \A i \in DOMAIN s :
        /\ s[i] \notin {60, 62, 39, 34}
        /\ s[i] = 38 => \E k \in DOMAIN Entities :
                            StartsWith(SubSeq(s, i, Len(s)), Entities[k].entity)

\* C11: for every string s that satisfies the Text grammar, escapeText (s) returns
\* a string that contains none of < > ' " and no & other than the one starting an
\* entity, and replacing the five entities back (ampersand last) gives s again.
C11_EscapeRoundTrip ==
    (result.fn = "escapeText" /\ SatisfiesTextGrammar(text))
    => /\ result.ok
       /\ unescape(result.value) = text
       /\ IsEscaped(result.value)

\* The same for the strings escapeText accepts.
EscapeRoundTripWhenAccepted ==
    (result.fn = "escapeText" /\ result.ok)
    => /\ unescape(result.value) = text
       /\ IsEscaped(result.value)

\* The walk up the parent links from e (the do .. while of append, the recursion
\* of ownerDocument) reaches an Element without parent within fuel steps.
RECURSIVE WalkEnds(_, _)
WalkEnds(e, fuel) ==
    IF parent[e] = None THEN TRUE
    ELSE IF fuel = 0 THEN FALSE
    ELSE WalkEnds(parent[e], fuel - 1)

\* A walk that has not ended after as many steps as there are Elements is on a
\* cycle of parent links and never ends.
ParentWalksEnd == \A e \in Elems : WalkEnds(e, Cardinality(Elems))

\* The recursion of outerHTML / innerHTML / toString and that of innerText return
\* for every Element.
ReadsReturn ==
    \A e \in Elems : ~Reenters(Heap, e, {}, TRUE) /\ ~Reenters(Heap, e, {}, FALSE)

\* C14: in every state reached by append, remove, clear and innerText-write calls,
\* the reads outerHTML / innerHTML / innerText / toString of every Element and
\* the parent-chain walks of append and ownerDocument finish after finitely
\* many steps.
C14_EveryOperationTerminates == ReadsReturn /\ ParentWalksEnd

(***************************************************************************)
(* Properties of the attributes and of serialization.                      *)
(***************************************************************************)

\* The Name-Token grammar: one or two parts separated by ':', each part a letter
\* or '_' followed by letters, digits, '-', '_' and '.'.
NameStartChars == {95} \cup (65..90) \cup (97..122)

NameChars == NameStartChars \cup {45, 46} \cup (48..57)

Colons(s) == {i \in DOMAIN s : s[i] = 58}

IsNameToken(s) ==
    /\ Len(s) >= 1
    /\ Cardinality(Colons(s)) <= 1
    /\ \A i \in DOMAIN s :
          IF i = 1 \/ (i - 1) \in Colons(s) THEN s[i] \in NameStartChars
          ELSE IF i \in Colons(s) THEN i < Len(s)
          ELSE s[i] \in NameChars

\* C12: every stored attribute name matches the Name-Token grammar and every
\* stored value the Text grammar; a setAttribute call that fails on the name or on
\* the value leaves the attributes unchanged; removeAttribute of a name that is
\* not set does not fail and changes nothing.
C12_StoredAttributesValid ==
    /\ [](\A e \in Elems : \A i \in DOMAIN attributes[e] :
            /\ IsNameToken(attributes[e][i].name)
            /\ SatisfiesTextGrammar(attributes[e][i].value))
    /\ [][(last'.op = "setAttribute" /\ last'.err # NoError)
            => UNCHANGED treeVars]_vars
    /\ [][(last'.op = "removeAttribute" /\ ~HasName(attributes[last'.this], text'))
            => (last'.err = NoError /\ UNCHANGED treeVars)]_vars

\* C12 witness: a setAttribute call with a valid name failed on its value while
\* the Element had attributes stored, one of them under that name.
C12_Witness ==
    /\ last.op = "setAttribute" /\ last.err = ErrUnsafeAttrValue
    /\ Len(attributes[last.this]) = 2
    /\ HasName(attributes[last.this], text)

\* The attribute mapping of e: its (name, value) pairs, whatever their order.
Mapping(e) == {<<attributes[e][i].name, attributes[e][i].value>> : i \in DOMAIN attributes[e]}

MappedNames(e) == {pair[1] : pair \in Mapping(e)}

\* The names of the mapping, each once, in ascending order.
AscendingNames(e) ==
    CHOOSE names \in [1..Cardinality(MappedNames(e)) -> MappedNames(e)] :
        \A i, j \in DOMAIN names : i < j => LexLess(names[i], names[j])

MappedValue(e, name) == CHOOSE value \in {pair[2] : pair \in Mapping(e)} : <<name, value>> \in Mapping(e)

\* tab name=' escaped value ' for the names from the k-th on.
RECURSIVE AttributeText(_, _, _)
AttributeText(e, names, k) ==
    IF k > Len(names) THEN <<>>
    ELSE <<9>> \o names[k] \o <<61, 39>> \o escapeText(MappedValue(e, names[k])).value
         \o <<39>> \o AttributeText(e, names, k + 1)

\* The serialization of a non-void Element with every attribute of its mapping
\* once, in ascending name order, around its innerHTML.
Canonical(e) ==
    <<60>> \o shadow[e].realName \o AttributeText(e, AscendingNames(e), 1) \o <<62>>
    \o innerHTML(Heap, e).value \o <<60, 47>> \o shadow[e].realName \o <<62>>

\* C13: two Elements with the same tag and children and equal attribute mappings,
\* whatever the order of the setAttribute / removeAttribute calls that produced
\* them, have the same outerHTML, and the outerHTML read has each attribute of the
\* mapping exactly once, in ascending name order.
C13_SerializationOrderIndependent ==
    /\ \A e1, e2 \in Elems :
          (/\ shadow[e1].realName = shadow[e2].realName
           /\ children[e1] = children[e2]
           /\ Mapping(e1) = Mapping(e2))
          => outerHTML(Heap, e1) = outerHTML(Heap, e2)
    /\ last.op = "outerHTML"
       => (result.ok /\ result.value = Canonical(last.this))

\* C13 witness: outerHTML was read on one of two Elements that hold the same two
\* attributes, created in different orders.
C13_Witness ==
    /\ last.op = "outerHTML"
    /\ Len(attributes[1]) = 2
    /\ attributes[1] # attributes[2]
    /\ Mapping(1) = Mapping(2)

(***************************************************************************)
(* Properties of the Document and of remove.                               *)
(***************************************************************************)

\* The Element without parent that the parent links lead to from e.
RootOf(e) == CHOOSE r \in SelfAndAncestors(e) : parent[r] = None

\* The skeleton: html holds head and body, head holds meta and title, body and
\* title hold nothing, and all five report the Document.
Skeleton ==
    /\ childrenView(Heap, DocHtml) = <<ElemEntry(DocHead), ElemEntry(DocBody)>>
    /\ childrenView(Heap, DocHead) = <<ElemEntry(DocCharset), ElemEntry(DocTitle)>>
    /\ childrenView(Heap, DocBody) = <<>>
    /\ childrenView(Heap, DocTitle) = <<>>
    /\ \A e \in {DocHtml, DocHead, DocBody, DocCharset, DocTitle} :
          ownerDocument(Heap, e) = TheDocument

\* C15: a freshly constructed Document has the skeleton; for every Element e,
\* e.ownerDocument is the Document stored on the root of the parent chain of e;
\* after e.remove (), e being another Element than the root of the Document,
\* e.ownerDocument is null.
C15_SkeletonAndOwnerDocument ==
    /\ [](last.op = "new" => Skeleton)
    /\ [](\A e \in Elems : ownerDocument(Heap, e) = document[RootOf(e)])
    /\ [][\A e \in Elems \ {DocHtml} :
             (last'.op = "remove" /\ last'.this = e) => ownerDocument(Heap', e) = None]_vars

\* C15 witness: head was removed from the Document while meta was attached to
\* it: head and meta no longer report a Document, html and body still do.
C15_Witness ==
    /\ last.op = "remove" /\ last.this = DocHead
    /\ parent[DocCharset] = DocHead
    /\ ownerDocument(Heap, DocCharset) = None
    /\ ownerDocument(Heap, DocBody) = TheDocument

\* The Elements below e: those reached from e along children entries and those
\* whose parent links lead to e, e itself left out.
Below(e) == (Descendants(e) \cup {x \in Elems : e \in SelfAndAncestors(x)}) \ {e}

\* C16: e.remove () on an Element without parent changes no state at all; on an
\* attached Element it leaves the children array of e and the parent link of
\* every Element below e unchanged.
C16_RemoveFrame ==
    [][\A e \in Elems :
          (last'.op = "remove" /\ last'.this = e)
          => /\ parent[e] = None => UNCHANGED treeVars
             /\ parent[e] # None
                => /\ children'[e] = children[e]
                   /\ \A x \in Below(e) : parent'[x] = parent[x]]_vars

\* C16 witness: an Element that holds an Element child was removed from its
\* parent, where it left a hole; the child is still attached to it.
C16_Witness ==
    /\ last.op = "remove"
    /\ \E c \in ChildElems(last.this) : parent[c] = last.this
    /\ \E p \in Elems \ {last.this} : \E i \in DOMAIN children[p] : children[p][i] = Hole

\* The Element arguments a successful append step has added to the array of x,
\* with the slot (0-based) each one occupies.
AppendedSlots(x) ==
    {<<children'[x][j].elem, j - 1>> :
        j \in {k \in (Len(children[x]) + 1)..Len(children'[x]) : children'[x][k].kind = "elem"}}

\* C17: after a successful append, the position recorded for each Element
\* argument is the index of the slot the argument occupies in the children array
\* of the receiver, so distinct Element arguments of one call have distinct
\* positions.
C17_RecordedPositionIsSlot ==
    [][\A x \in Elems :
          (last'.op = "append" /\ last'.this = x /\ last'.err = NoError)
          => \A slot \in AppendedSlots(x) : parentIndex'[slot[1]] = slot[2]]_vars

\* How often Element e occurs in the children array of p.
Occurrences(e, p) == Cardinality({i \in DOMAIN children[p] : children[p][i] = ElemEntry(e)})

\* C18: for all Elements e and p, e.parentElement is p if and only if e occurs in
\* the children array of p, and then it occurs there exactly once.
C18_ParentAndChildrenAgree ==
    \A e, p \in Elems :
        /\ parentElement(Heap, e) = p <=> Occurrences(e, p) >= 1
        /\ Occurrences(e, p) <= 1

\* C19: an innerText write, or a Document title write, that fails because the
\* value does not satisfy the Text grammar leaves the children array of the
\* Element and the parent links of its children as they were.
C19_FailedWriteKeepsContent ==
    [][\A e \in Elems :
          (/\ last'.op \in {"innerText", "title"} /\ last'.this = e
           /\ last'.err = ErrInvalidText)
          => /\ children'[e] = children[e]
             /\ \A c \in ChildElems(e) : parent'[c] = parent[c]]_vars

====
